---- MODULE Spec2Model ----
(***************************************************************************)
(* A model of the document engine of the PeeR Power-Editor (src/App.tsx):  *)
(* the Sectionizer modularizeText, the full-document view fullText, the    *)
(* offset splice of updateDocumentAtSelection, the snippet fix of          *)
(* handleConfirmFix and the React state of the App component that owns     *)
(* the document.                                                           *)
(*                                                                         *)
(* A JavaScript string is modelled as a sequence of one-character strings, *)
(* so that split, trim, substring, indexOf and replace are computed the    *)
(* way the engine computes them.                                           *)
(***************************************************************************)
EXTENDS Integers, Sequences, FiniteSets, TLC

VARIABLES
    sections,             \* PaperSection[] (src/App.tsx:57)
    activeSectionId,      \* src/App.tsx:58
    isFullDocMode,        \* src/App.tsx:59
    now,                  \* the value Date.now() returns
    mode,                 \* EditorMode (src/App.tsx:55)
    selection,            \* <<>> for null, else <<[text, start, end, sectionId]>>
    showMicroEditTooltip, \* src/App.tsx:70
    analysisResult,       \* <<>> for null, else <<[issues, discovery, loading]>>
    previewingIssue,      \* <<>> for null, else <<issue>>
    microEditLoading,     \* src/App.tsx:71
    calls,                \* the model calls in flight, each with the values
                          \* its handler's closure captured
    last,                 \* the document handler that ran last, and whether
                          \* it changed the sections
    edits,                \* number of document writes so far
    arg,                  \* input of the pure function under check
    res,                  \* its result
    res2,                 \* the result of the second application (round trip)
    stage                 \* position of the pure-function check

docVars == <<sections, activeSectionId, isFullDocMode, now>>
selVars == <<selection, showMicroEditTooltip>>
reviewVars == <<mode, analysisResult, previewingIssue>>
asyncVars == <<microEditLoading, calls>>
ghostVars == <<last, edits>>
appVars == <<docVars, selVars, reviewVars, asyncVars, ghostVars>>
pureVars == <<arg, res, res2, stage>>
vars == <<appVars, pureVars>>

---------------------------------------------------------------------------
(* Bounds of the model *)

\* longest text handed to modularizeText in the pure-function check
MaxTextLen == 5

\* most document writes in a run of App
MaxEdits == 2

\* longest section content of the splice check
MaxBodyLen == 3

\* most model calls in flight at once
MaxCalls == 1

\* last value of the clock
MaxTime == 1

---------------------------------------------------------------------------
(* Characters and JavaScript string primitives *)

Min(S) == CHOOSE x \in S : \A y \in S : x <= y
Max(S) == CHOOSE x \in S : \A y \in S : x >= y

\* The characters of the JavaScript class \s that the model's alphabets use;
\* String.prototype.trim strips the same class.
WhiteSpace == {" ", "\t", "\n", "\r"}
IsSpace(c) == c \in WhiteSpace

\* The regular expression atom . matches any character but a line terminator.
IsDot(c) == c \notin {"\n", "\r"}

UpperLetters ==
    <<"A", "B", "C", "D", "E", "F", "G", "H", "I", "J", "K", "L", "M",
      "N", "O", "P", "Q", "R", "S", "T", "U", "V", "W", "X", "Y", "Z">>
LowerLetters ==
    <<"a", "b", "c", "d", "e", "f", "g", "h", "i", "j", "k", "l", "m",
      "n", "o", "p", "q", "r", "s", "t", "u", "v", "w", "x", "y", "z">>
IsUpper(c) == \E i \in DOMAIN UpperLetters : UpperLetters[i] = c

\* String.prototype.toLowerCase
toLowerChar(c) ==
    IF IsUpper(c)
    THEN LowerLetters[CHOOSE i \in DOMAIN UpperLetters : UpperLetters[i] = c]
    ELSE c
toLowerCase(s) == [i \in 1..Len(s) |-> toLowerChar(s[i])]

\* String.prototype.substring(a, b): both offsets are clamped to
\* 0..length and swapped when a > b.
Clamp(k, n) == IF k < 0 THEN 0 ELSE IF k > n THEN n ELSE k
substring(s, a, b) ==
    LET ca == Clamp(a, Len(s))
        cb == Clamp(b, Len(s))
        lo == IF ca <= cb THEN ca ELSE cb
        hi == IF ca <= cb THEN cb ELSE ca
    IN  SubSeq(s, lo + 1, hi)
substringFrom(s, a) == substring(s, a, Len(s))

\* String.prototype.trim
trim(s) ==
    LET keep == {i \in 1..Len(s) : ~IsSpace(s[i])}
    IN  IF keep = {} THEN <<>> ELSE SubSeq(s, Min(keep), Max(keep))

\* String.prototype.indexOf(needle), 0-based; -1 when absent. The empty
\* needle is found at offset 0.
OccursAt(s, needle, k) ==
    /\ k + Len(needle) <= Len(s)
    /\ \A i \in 1..Len(needle) : s[k + i] = needle[i]
indexOf(s, needle) ==
    LET hits == {k \in 0..Len(s) : OccursAt(s, needle, k)}
    IN  IF hits = {} THEN -1 ELSE Min(hits)
includes(s, needle) == indexOf(s, needle) # -1

\* Array.prototype.join(sep)
RECURSIVE join(_, _)
join(parts, sep) ==
    IF parts = <<>> THEN <<>>
    ELSE IF Len(parts) = 1 THEN parts[1]
    ELSE parts[1] \o sep \o join(Tail(parts), sep)

\* text.split(/\r?\n/): the separator is a line feed together with the
\* carriage return right before it, when there is one.
RECURSIVE splitLines(_)
splitLines(text) ==
    LET nl == {i \in 1..Len(text) : text[i] = "\n"}
    IN  IF nl = {} THEN <<text>>
        ELSE LET i == Min(nl)
                 cut == IF i > 1 /\ text[i - 1] = "\r" THEN i - 2 ELSE i - 1
             IN  <<SubSeq(text, 1, cut)>>
                     \o splitLines(SubSeq(text, i + 1, Len(text)))

---------------------------------------------------------------------------
(* The Sectionizer *)

FrontMatter == <<"F", "r", "o", "n", "t", " ", "M", "a", "t", "t", "e", "r">>
Introduction == <<"I", "n", "t", "r", "o", "d", "u", "c", "t", "i", "o", "n">>

\* A document without sections.
NoSections == <<>>

\* The seed document. Ids and titles are the source's; each section's prose
\* is abbreviated to a few characters (the last section is empty, as in the
\* source).
INITIAL_SECTIONS ==
    << [id |-> <<"abstract">>,
        title |-> <<"A", "b", "s", "t", "r", "a", "c", "t">>,
        content |-> <<"A", "I", " ", "i", "s">>],
       [id |-> <<"intro">>,
        title |-> Introduction,
        content |-> <<"i", "s", " ", "i", "s">>],
       [id |-> <<"methods">>,
        title |-> <<"M", "e", "t", "h", "o", "d", "s">>,
        content |-> <<"W", "e">>],
       [id |-> <<"refs">>,
        title |-> <<"R", "e", "f", "e", "r", "e", "n", "c", "e", "s">>,
        content |-> <<>>] >>

\* Number of leading characters of s, from offset k (0-based), that
\* satisfy the class.
RunOfSpace(s, k) ==
    LET stop == {i \in (k + 1)..Len(s) : ~IsSpace(s[i])}
    IN  IF stop = {} THEN Len(s) - k ELSE Min(stop) - 1 - k
RunOfHash(s, k) ==
    LET stop == {i \in (k + 1)..Len(s) : s[i] # "#"}
    IN  IF stop = {} THEN Len(s) - k ELSE Min(stop) - 1 - k

\* line.match(/^\s*(#+)\s*(.+?)\s*$/): capture group 2, or <<>> when the
\* line does not match. The leading \s* takes the whole leading white
\* space; #+ and the \s* after it are greedy, .+? is lazy:
\*   - if a character other than white space follows, group 2 runs from
\*     it to the last character that is not white space, and must hold no
\*     line terminator;
\*   - if nothing follows, the second \s* gives back characters until .+?
\*     can take one: the last character of the white space after the
\*     hashes that . matches; failing that #+ gives back its last hash.
hashHeading(line) ==
    LET n == Len(line)
        lead == RunOfSpace(line, 0)
        h == RunOfHash(line, lead)
        w == RunOfSpace(line, lead + h)
        rest == SubSeq(line, lead + h + w + 1, n)
    IN  IF h = 0 THEN <<>>
        ELSE IF rest # <<>>
        THEN LET cap == SubSeq(rest, 1,
                            Max({i \in 1..Len(rest) : ~IsSpace(rest[i])}))
             IN  IF \A i \in 1..Len(cap) : IsDot(cap[i]) THEN cap ELSE <<>>
        ELSE LET ok == {k \in (lead + h + 1)..(lead + h + w) : IsDot(line[k])}
             IN  IF ok # {} THEN <<line[Max(ok)]>>
                 ELSE IF h >= 2 THEN <<"#">>
                 ELSE <<>>

\* line.match(/^\s*([A-Z\s]{4,})\s*$/): capture group 1, or <<>> when the
\* line does not match. The leading \s* gives back white space until four
\* characters are left for the group, which then runs to the end of the line.
upperHeading(line) ==
    LET n == Len(line)
        lead == RunOfSpace(line, 0)
        skip == IF lead <= n - 4 THEN lead ELSE n - 4
    IN  IF n >= 4 /\ \A i \in 1..n : IsUpper(line[i]) \/ IsSpace(line[i])
        THEN SubSeq(line, skip + 1, n)
        ELSE <<>>

\* headerMatch[2] || headerMatch[1] of the first pattern that matches;
\* <<>> when headerMatch is null. A captured title is never empty.
headerMatch(line) ==
    IF hashHeading(line) # <<>> THEN hashHeading(line) ELSE upperHeading(line)

LF == <<"\n">>

\* pushSection with the joined buffer stored untrimmed.
pushSectionUntrimmed(acc, defaultTitle, t) ==
    IF Len(acc.currentContent) > 0 \/ acc.currentHeader # <<>>
    THEN [acc EXCEPT
            !.sections = Append(@,
                [id |-> <<"sec", acc.sectionCount, t>>,
                 title |-> IF acc.currentHeader # <<>> THEN acc.currentHeader
                           ELSE defaultTitle,
                 content |-> join(acc.currentContent, LF)]),
            !.sectionCount = @ + 1]
    ELSE acc

\* pushSection with every id given the ordinal 0.
pushSectionSameOrdinal(acc, defaultTitle, t) ==
    IF Len(acc.currentContent) > 0 \/ acc.currentHeader # <<>>
    THEN [acc EXCEPT
            !.sections = Append(@,
                [id |-> <<"sec", 0, t>>,
                 title |-> IF acc.currentHeader # <<>> THEN acc.currentHeader
                           ELSE defaultTitle,
                 content |-> trim(join(acc.currentContent, LF))]),
            !.sectionCount = @ + 1]
    ELSE acc

\* pushSection under the guard currentContent.length > 0 alone.
pushSectionIfContent(acc, defaultTitle, t) ==
    IF Len(acc.currentContent) > 0
    THEN [acc EXCEPT
            !.sections = Append(@,
                [id |-> <<"sec", acc.sectionCount, t>>,
                 title |-> IF acc.currentHeader # <<>> THEN acc.currentHeader
                           ELSE defaultTitle,
                 content |-> trim(join(acc.currentContent, LF))]),
            !.sectionCount = @ + 1]
    ELSE acc

\* sections.push({id: `sec-${sectionCount++}-${Date.now()}`, ...}) under
\* the guard currentContent.length > 0 || currentHeader.
pushSection(acc, defaultTitle, t) ==
    IF Len(acc.currentContent) > 0 \/ acc.currentHeader # <<>>
    THEN [acc EXCEPT
            !.sections = Append(@,
                [id |-> <<"sec", acc.sectionCount, t>>,
                 title |-> IF acc.currentHeader # <<>> THEN acc.currentHeader
                           ELSE defaultTitle,
                 content |-> trim(join(acc.currentContent, LF))]),
            !.sectionCount = @ + 1]
    ELSE acc

\* The body of lines.forEach with the buffer kept at a heading line.
RECURSIVE scanLinesKeepingBuffer(_, _, _, _)
scanLinesKeepingBuffer(lines, k, acc, t) ==
    IF k > Len(lines) THEN acc
    ELSE LET title == headerMatch(lines[k])
         IN  IF title # <<>>
             THEN scanLinesKeepingBuffer(lines, k + 1,
                      [pushSection(acc, FrontMatter, t) EXCEPT
                          !.currentHeader = title], t)
             ELSE scanLinesKeepingBuffer(lines, k + 1,
                      [acc EXCEPT !.currentContent = Append(@, lines[k])], t)

\* The body of lines.forEach, applied to lines k..Len(lines).
RECURSIVE scanLines(_, _, _, _)
scanLines(lines, k, acc, t) ==
    IF k > Len(lines) THEN acc
    ELSE LET title == headerMatch(lines[k])
         IN  IF title # <<>>
             THEN scanLines(lines, k + 1,
                      [pushSection(acc, FrontMatter, t) EXCEPT
                          !.currentHeader = title,
                          !.currentContent = <<>>], t)
             ELSE scanLines(lines, k + 1,
                      [acc EXCEPT !.currentContent = Append(@, lines[k])], t)

\* modularizeText(text); t is the value Date.now() returns during the call.
modularizeText(text, t) ==
    LET start == [sections |-> <<>>, currentHeader |-> <<>>,
                  currentContent |-> <<>>, sectionCount |-> 0]
        done == pushSection(scanLines(splitLines(text), 1, start, t),
                            Introduction, t)
    IN  IF Len(done.sections) = 0 THEN INITIAL_SECTIONS ELSE done.sections

\* fullText: sections.map(s => `# ${s.title}\n\n${s.content}`).join('\n\n')
sectionBlock(s) == <<"#", " ">> \o s.title \o <<"\n", "\n">> \o s.content
fullText(secs) ==
    join([i \in 1..Len(secs) |-> sectionBlock(secs[i])], <<"\n", "\n">>)

---------------------------------------------------------------------------
(* The document operations of App *)

\* An undefined sectionId.
NoId == <<>>

References == <<"R", "e", "f", "e", "r", "e", "n", "c", "e", "s">>

\* sections.find(s => s.id === id): <<>> when there is none, else the first.
findSection(secs, id) ==
    LET hits == {i \in 1..Len(secs) : secs[i].id = id}
    IN  IF hits = {} THEN <<>> ELSE <<secs[Min(hits)]>>

\* activeSection: sections.find(s => s.id === activeSectionId) || sections[0]
activeSection(secs, activeId) ==
    IF findSection(secs, activeId) # <<>> THEN findSection(secs, activeId)[1]
    ELSE secs[1]

\* targetContent of handleSelect
targetContent(secs, activeId, full, sectionId) ==
    IF sectionId # NoId
    THEN IF findSection(secs, sectionId) # <<>>
         THEN findSection(secs, sectionId)[1].content
         ELSE <<>>
    ELSE IF full THEN fullText(secs)
    ELSE activeSection(secs, activeId).content

\* The splice with the tail taken from the start offset: nothing is deleted.
spliceAtKeepingRange(body, sel, newSegment) ==
    substring(body, 0, sel.start) \o newSegment \o substringFrom(body, sel.start)

\* body.substring(0, selection.start) + newSegment + body.substring(selection.end)
spliceAt(body, sel, newSegment) ==
    substring(body, 0, sel.start) \o newSegment \o substringFrom(body, sel.end)

\* The section-targeted branch of updateDocumentAtSelection with every
\* section spliced, whatever its id.
spliceSectionAll(prev, targetId, sel, newSegment) ==
    [i \in 1..Len(prev) |->
        [prev[i] EXCEPT !.content = spliceAt(@, sel, newSegment)]]

\* prev.map(s => s.id === targetId ? {...s, content: splice} : s)
spliceSection(prev, targetId, sel, newSegment) ==
    [i \in 1..Len(prev) |->
        IF prev[i].id = targetId
        THEN [prev[i] EXCEPT !.content = spliceAt(@, sel, newSegment)]
        ELSE prev[i]]

\* Whether updateDocumentAtSelection, run from closure c, takes the
\* full-document branch.
reflows(c) == c.isFullDocMode /\ c.selection[1].sectionId = NoId

\* What the closure of a handler holds of the render it was created in,
\* as far as the handler reads it after its await:
\*   - updateDocumentAtSelection reads selection, isFullDocMode and
\*     activeSectionId, and fullText in its full-document branch only;
\*   - handleHumanize reads activeSectionId; sent is the text it handed to
\*     the model layer (activeSection.content);
\*   - runAnalysis was started in mode.
NoClosure ==
    [selection |-> <<>>, isFullDocMode |-> FALSE, fullText |-> <<>>,
     activeSectionId |-> NoId, sent |-> <<>>, mode |-> ""]

UpdateClosure ==
    LET c == [NoClosure EXCEPT !.selection = selection,
                                !.isFullDocMode = isFullDocMode,
                                !.activeSectionId = activeSectionId]
    IN  IF selection # <<>> /\ reflows(c)
        THEN [c EXCEPT !.fullText = fullText(sections)]
        ELSE c

HumanizeClosure ==
    [NoClosure EXCEPT !.activeSectionId = activeSectionId,
                      !.sent = activeSection(sections, activeSectionId).content]

AnalysisClosure == [NoClosure EXCEPT !.mode = mode]

\* The branch of updateDocumentAtSelection, as the handlers record it in
\* last.
branchOf(c) == IF reflows(c) THEN "reflow" ELSE "splice"

targetIdOf(c) ==
    IF c.selection[1].sectionId # NoId THEN c.selection[1].sectionId
    ELSE c.activeSectionId

\* The sections updateDocumentAtSelection(newSegment) sets, run from
\* closure c (which holds a selection) when the state holds prev; t is
\* Date.now().
updatedSections(c, prev, newSegment, t) ==
    IF reflows(c)
    THEN modularizeText(spliceAt(c.fullText, c.selection[1], newSegment), t)
    ELSE spliceSection(prev, targetIdOf(c), c.selection[1], newSegment)

\* handleAddReference with the reference joined on without separator.
addReferenceNoSeparator(prev, fullRef) ==
    LET hits == {i \in 1..Len(prev) :
                    includes(toLowerCase(prev[i].title),
                             <<"r", "e", "f", "e", "r", "e", "n", "c", "e">>)}
        newState == IF hits = {}
                    THEN Append(prev, [id |-> <<"refs-auto">>,
                                       title |-> References,
                                       content |-> <<>>])
                    ELSE prev
        refsIdx == IF hits = {} THEN Len(newState) ELSE Min(hits)
        c == newState[refsIdx].content
    IN  [newState EXCEPT ![refsIdx].content = trim(c) \o fullRef]

\* handleAddReference: the updater of setSections.
addReference(prev, fullRef) ==
    LET hits == {i \in 1..Len(prev) :
                    includes(toLowerCase(prev[i].title),
                             <<"r", "e", "f", "e", "r", "e", "n", "c", "e">>)}
        newState == IF hits = {}
                    THEN Append(prev, [id |-> <<"refs-auto">>,
                                       title |-> References,
                                       content |-> <<>>])
                    ELSE prev
        refsIdx == IF hits = {} THEN Len(newState) ELSE Min(hits)
        c == newState[refsIdx].content
        separator == IF trim(c) # <<>> THEN LF ELSE <<>>
    IN  [newState EXCEPT ![refsIdx].content = trim(c) \o separator \o fullRef]

RECURSIVE addReferences(_, _)
addReferences(prev, refs) ==
    IF refs = <<>> THEN prev
    ELSE addReferences(addReference(prev, Head(refs)), Tail(refs))

\* GetSubstitution of String.prototype.replace for a string pattern (no
\* capture groups): $$ is a dollar sign, $& the match, $' the text after
\* it; any other character stands for itself. (The pattern for the text
\* before the match is a dollar sign and a grave accent, a character the
\* model's alphabets do not hold.)
RECURSIVE getSubstitution(_, _, _, _)
getSubstitution(matched, str, position, replacement) ==
    IF replacement = <<>> THEN <<>>
    ELSE IF /\ replacement[1] = "$"
            /\ Len(replacement) >= 2
            /\ replacement[2] \in {"$", "&", "'"}
    THEN (CASE replacement[2] = "$" -> <<"$">>
            [] replacement[2] = "&" -> matched
            [] OTHER -> SubSeq(str, position + Len(matched) + 1, Len(str)))
         \o getSubstitution(matched, str, position,
                            SubSeq(replacement, 3, Len(replacement)))
    ELSE <<replacement[1]>>
         \o getSubstitution(matched, str, position, Tail(replacement))

\* content.replace(snippet, replacement): the first occurrence only.
replaceFirst(s, pattern, replacement) ==
    LET pos == indexOf(s, pattern)
    IN  IF pos = -1 THEN s
        ELSE SubSeq(s, 1, pos)
             \o getSubstitution(pattern, s, pos, replacement)
             \o SubSeq(s, pos + Len(pattern) + 1, Len(s))

\* handleConfirmFix: the updater of setSections.
fixedSections(prev, issue) ==
    [i \in 1..Len(prev) |->
        IF includes(prev[i].content, issue.snippet)
        THEN [prev[i] EXCEPT
                !.content = replaceFirst(@, issue.snippet, issue.replacement)]
        ELSE prev[i]]

\* issues.filter(i => i.id !== issue.id)
RECURSIVE withoutId(_, _)
withoutId(issues, id) ==
    IF issues = <<>> THEN <<>>
    ELSE IF Head(issues).id = id THEN withoutId(Tail(issues), id)
    ELSE <<Head(issues)>> \o withoutId(Tail(issues), id)

\* prev.map(s => s.id === id ? {...s, content: value} : s)
withContent(prev, id, value) ==
    [i \in 1..Len(prev) |->
        IF prev[i].id = id THEN [prev[i] EXCEPT !.content = value] ELSE prev[i]]

RemoveAt(seq, k) == SubSeq(seq, 1, k - 1) \o SubSeq(seq, k + 1, Len(seq))
Ids(secs) == {secs[i].id : i \in 1..Len(secs)}

---------------------------------------------------------------------------
(* The pure-function check of the Sectionizer *)

SectChars == {"#", "a", "A", " ", "\n", "\r"}
Texts == UNION {[1..n -> SectChars] : n \in 0..MaxTextLen}

\* The text of the example: two '#'-style headings, each with a line of
\* prose.
ExampleText ==
    <<"#", " ", "A", "b", "s", "t", "r", "a", "c", "t", "\n", "\n", "H",
      "e", "l", "l", "o", " ", "w", "o", "r", "l", "d", ".", "\n", "#",
      " ", "M", "e", "t", "h", "o", "d", "s", "\n", "W", "e", " ", "d",
      "i", "d", " ", "X", ".">>

\* The idle values of the pure-function check's variables.
PureIdle ==
    /\ arg = <<>>
    /\ res = <<>>
    /\ res2 = <<>>
    /\ stage = "idle"

\* The state of App after construction (the useState initial values).
InitApp ==
    /\ sections = INITIAL_SECTIONS
    /\ activeSectionId = <<"abstract">>
    /\ isFullDocMode = FALSE
    /\ now = 0
    /\ mode = "WRITE"
    /\ selection = <<>>
    /\ showMicroEditTooltip = FALSE
    /\ analysisResult = <<>>
    /\ previewingIssue = <<>>
    /\ microEditLoading = FALSE
    /\ calls = <<>>
    /\ last = [op |-> "init", changed |-> FALSE]
    /\ edits = 0

(* Inputs: what the user types and what the model layer returns *)

\* The ranges (selectionStart, selectionEnd) the user marks in a textarea;
\* the first is a caret.
SelectionRanges == { <<0, 0>>, <<0, 2>>, <<3, 5>> }

\* Values of the editor textarea after a change event.
TypedTexts == { <<"s", "o", " ", "i", "s">> }

\* Texts the user imports: prose without heading, two headings around a
\* line of prose, and white space only.
ImportTexts ==
    { <<"i", "s">>,
      <<"#", " ", "A", "\n", "i", "s", "\n", "#", " ", "B">>,
      <<" ", " ">> }

\* Results of microEdit (never empty: response.text || text).
MicroEditTexts == { <<"w", "a", "s">> }

\* Results of humanizeText.
HumanizeTexts == { <<"s", "o">> }

\* Results of suggestCitations.
Paper1 == [citationMarker |-> <<"[", "1", "]">>, fullReference |-> <<"R", "1">>]
Paper2 == [citationMarker |-> <<"[", "2", "]">>, fullReference |-> <<"R", "2">>]
CitationReplies ==
    { [citationMarker |-> <<"[", "1", "]">>,
       references |-> << <<"R", "1">>, <<"R", "2">> >>,
       relatedPapers |-> <<Paper1, Paper2>>] }

\* Issues of an analysis reply. Each has a suggestion, so the panel shows
\* its Review Fix button.
IssueIs == [id |-> "a", snippet |-> <<"i", "s">>, replacement |-> <<"a", "s">>]
IssueDollar == [id |-> "b", snippet |-> <<"i", "s">>, replacement |-> <<"$", "$">>]
IssueDelete == [id |-> "c", snippet |-> <<"W", "e">>, replacement |-> <<>>]
IssueTitle == [id |-> "d", snippet |-> <<"A", "b", "s">>, replacement |-> <<"x">>]
IssueNoSnippet == [id |-> "e", snippet |-> <<>>, replacement |-> <<"x">>]
\* The ids are the model layer's: a reply may use one twice.
IssueTwin == [id |-> "a", snippet |-> <<"W", "e">>, replacement |-> <<"U", "s">>]
AnalysisReplies ==
    { <<IssueIs, IssueDollar>>, <<IssueDelete, IssueTitle, IssueNoSnippet>>,
      <<IssueIs, IssueTwin>> }

\* The sidebar entries the bounded runs click.
ModeMenu == {"WRITE", "DE_AI", "DISCOVERY"}

---------------------------------------------------------------------------
(* What the panels render *)

PanelShown == mode # "WRITE" /\ mode # "AGENT"

IssuesShown ==
    /\ PanelShown
    /\ analysisResult # <<>>
    /\ ~analysisResult[1].loading
    /\ Len(analysisResult[1].issues) > 0
    /\ mode # "DISCOVERY"

DiscoveryShown ==
    /\ PanelShown
    /\ mode = "DISCOVERY"
    /\ analysisResult # <<>>
    /\ Len(analysisResult[1].discovery) > 0

\* The issues rendered with Cancel and Apply buttons, and those rendered
\* with a Review Fix button.
IsPreviewing(issue) == previewingIssue # <<>> /\ previewingIssue[1].id = issue.id
ShownIssues ==
    IF IssuesShown
    THEN {analysisResult[1].issues[i] : i \in 1..Len(analysisResult[1].issues)}
    ELSE {}

---------------------------------------------------------------------------
(* The handlers of App *)

\* A handler that writes the document: the runs hold at most MaxEdits.
Ran(op) ==
    /\ edits < MaxEdits
    /\ edits' = edits + 1
    /\ last' = [op |-> op, changed |-> sections' # sections]

\* Date.now() advances.
Tick ==
    /\ now < MaxTime
    /\ now' = now + 1
    /\ UNCHANGED <<sections, activeSectionId, isFullDocMode, selVars,
                   reviewVars, asyncVars, ghostVars, pureVars>>

\* A keystroke in a textarea. onChange sets the content of the section of
\* that textarea: in single view the section whose id is activeSectionId,
\* in full view the textarea's own. The caret has moved, so onSelect fires
\* next with selectionStart = selectionEnd, for which handleSelect hides
\* the tooltip and keeps the selection.
typeInto(id, value) ==
    /\ sections' = withContent(sections, id, value)
    /\ showMicroEditTooltip' = FALSE
    /\ Ran("onChange")
    /\ UNCHANGED <<activeSectionId, isFullDocMode, now, selection, reviewVars,
                   asyncVars, pureVars>>

OnChange ==
    \E value \in TypedTexts :
        IF isFullDocMode
        THEN \E id \in Ids(sections) : typeInto(id, value)
        ELSE typeInto(activeSectionId, value)

\* The textareas that fire onSelect: in single view the active section's,
\* with no sectionId; in full view one per section, with its id.
textareaValue(sectionId) ==
    IF sectionId = NoId THEN activeSection(sections, activeSectionId).content
    ELSE findSection(sections, sectionId)[1].content

\* handleSelect with the length of the selected text taken untrimmed.
handleSelectUntrimmed(start, end, sectionId) ==
    /\ IF start # end
       THEN LET selectedText ==
                    substring(targetContent(sections, activeSectionId,
                                            isFullDocMode, sectionId),
                              start, end)
            IN  IF Len(selectedText) > 1
                THEN /\ selection' = <<[text |-> selectedText, start |-> start,
                                        end |-> end, sectionId |-> sectionId]>>
                     /\ showMicroEditTooltip' = TRUE
                ELSE /\ showMicroEditTooltip' = FALSE
                     /\ UNCHANGED selection
       ELSE /\ showMicroEditTooltip' = FALSE
            /\ UNCHANGED selection
    /\ UNCHANGED <<docVars, reviewVars, asyncVars, ghostVars, pureVars>>

handleSelect(start, end, sectionId) ==
    /\ IF start # end
       THEN LET selectedText ==
                    substring(targetContent(sections, activeSectionId,
                                            isFullDocMode, sectionId),
                              start, end)
            IN  IF Len(trim(selectedText)) > 1
                THEN /\ selection' = <<[text |-> selectedText, start |-> start,
                                        end |-> end, sectionId |-> sectionId]>>
                     /\ showMicroEditTooltip' = TRUE
                ELSE /\ showMicroEditTooltip' = FALSE
                     /\ UNCHANGED selection
       ELSE /\ showMicroEditTooltip' = FALSE
            /\ UNCHANGED selection
    /\ UNCHANGED <<docVars, reviewVars, asyncVars, ghostVars, pureVars>>

HandleSelect ==
    \E sectionId \in (IF isFullDocMode THEN Ids(sections) ELSE {NoId}) :
        \E range \in SelectionRanges :
            /\ range[2] <= Len(textareaValue(sectionId))
            /\ handleSelect(range[1], range[2], sectionId)

\* The Full Document button.
ToggleFullDoc ==
    /\ isFullDocMode' = ~isFullDocMode
    /\ UNCHANGED <<sections, activeSectionId, now, selVars, reviewVars,
                   asyncVars, ghostVars, pureVars>>

\* The setMode wrapper handed to the Sidebar.
SetMode ==
    \E m \in ModeMenu :
        /\ mode' = m
        /\ analysisResult' = <<>>
        /\ previewingIssue' = <<>>
        /\ UNCHANGED <<docVars, selVars, asyncVars, ghostVars, pureVars>>

\* A section entry of the Sidebar.
SelectSection ==
    \E id \in Ids(sections) :
        /\ activeSectionId' = id
        /\ IF mode # "WRITE"
           THEN /\ mode' = "WRITE"
                /\ analysisResult' = <<>>
                /\ previewingIssue' = <<>>
           ELSE UNCHANGED reviewVars
        /\ UNCHANGED <<sections, isFullDocMode, now, selVars, asyncVars,
                       ghostVars, pureVars>>

\* handleImport, from the Modularize button of the import dialog, with the
\* text the user put into the dialog; t is Date.now().
handleImport(importText, t) ==
    /\ trim(importText) # <<>>
    /\ sections' = modularizeText(importText, t)
    /\ activeSectionId' = sections'[1].id
    /\ Ran("handleImport")
    /\ UNCHANGED <<isFullDocMode, now, selVars, reviewVars, asyncVars,
                   pureVars>>

\* handleImport returns at once for a text that is empty after trimming.
importRefused(importText) ==
    /\ trim(importText) = <<>>
    /\ last' = [op |-> "handleImport refused", changed |-> FALSE]
    /\ UNCHANGED <<docVars, selVars, reviewVars, asyncVars, edits, pureVars>>

HandleImport ==
    \E importText \in ImportTexts :
        handleImport(importText, now) \/ importRefused(importText)

\* The eraser button.
ResetDocument ==
    /\ sections' = INITIAL_SECTIONS
    /\ Ran("reset")
    /\ UNCHANGED <<activeSectionId, isFullDocMode, now, selVars, reviewVars,
                   asyncVars, pureVars>>

\* handleCiteAtSelection, clicked on a paper of the discovery list:
\* updateDocumentAtSelection(selection.text + " " + marker, true). Without
\* a selection it alerts and changes nothing.
HandleCiteAtSelection ==
    /\ DiscoveryShown
    /\ selection # <<>>
    /\ \E k \in 1..Len(analysisResult[1].discovery) :
        sections' = updatedSections(UpdateClosure, sections,
                        selection[1].text \o <<" ">>
                            \o analysisResult[1].discovery[k].citationMarker,
                        now)
    /\ Ran(branchOf(UpdateClosure))
    /\ UNCHANGED <<activeSectionId, isFullDocMode, now, selVars, reviewVars,
                   asyncVars, pureVars>>

\* handleAddReference, clicked on a paper of the discovery list.
HandleAddReference ==
    /\ DiscoveryShown
    /\ \E k \in 1..Len(analysisResult[1].discovery) :
        sections' = addReference(sections,
                                 analysisResult[1].discovery[k].fullReference)
    /\ Ran("handleAddReference")
    /\ UNCHANGED <<activeSectionId, isFullDocMode, now, selVars, reviewVars,
                   asyncVars, pureVars>>

\* handleMicroEdit up to its await (the Academic button of the tooltip,
\* disabled while microEditLoading).
HandleMicroEdit ==
    /\ showMicroEditTooltip
    /\ ~microEditLoading
    /\ selection # <<>>
    /\ Len(calls) < MaxCalls
    /\ microEditLoading' = TRUE
    /\ calls' = Append(calls, [kind |-> "microEdit", closure |-> UpdateClosure])
    /\ UNCHANGED <<docVars, selVars, reviewVars, ghostVars, pureVars>>

\* microEdit resolves and the selection and the tooltip stay.
microEditResolvesKeepingSelection(k, newText) ==
    /\ calls[k].kind = "microEdit"
    /\ calls' = RemoveAt(calls, k)
    /\ sections' = updatedSections(calls[k].closure, sections, newText, now)
    /\ microEditLoading' = FALSE
    /\ Ran(branchOf(calls[k].closure))
    /\ UNCHANGED <<activeSectionId, isFullDocMode, now, selVars, reviewVars,
                   pureVars>>

\* microEdit resolves: updateDocumentAtSelection(newText) runs in the
\* closure of the render that started the call, then the finally block.
microEditResolves(k, newText) ==
    /\ calls[k].kind = "microEdit"
    /\ calls' = RemoveAt(calls, k)
    /\ sections' = updatedSections(calls[k].closure, sections, newText, now)
    /\ selection' = <<>>
    /\ showMicroEditTooltip' = FALSE
    /\ microEditLoading' = FALSE
    /\ Ran(branchOf(calls[k].closure))
    /\ UNCHANGED <<activeSectionId, isFullDocMode, now, reviewVars, pureVars>>

MicroEditResolves ==
    \E k \in 1..Len(calls) : \E newText \in MicroEditTexts :
        microEditResolves(k, newText)

\* A model call rejects and no handler puts its loading flag back.
CallFailsKeepingFlag ==
    \E k \in 1..Len(calls) :
        /\ calls' = RemoveAt(calls, k)
        /\ IF calls[k].kind = "analysis"
           THEN analysisResult' = <<>>
           ELSE UNCHANGED analysisResult
        /\ UNCHANGED <<docVars, selVars, mode, previewingIssue,
                       microEditLoading, ghostVars, pureVars>>

\* A model call rejects. Every handler's finally or catch block puts the
\* loading flag it raised back; handleMicroEdit, handleSuggestCitations and
\* handleHumanize change nothing else, runAnalysis sets analysisResult to
\* null.
CallFails ==
    \E k \in 1..Len(calls) :
        /\ calls' = RemoveAt(calls, k)
        /\ IF calls[k].kind = "analysis"
           THEN /\ analysisResult' = <<>>
                /\ UNCHANGED microEditLoading
           ELSE /\ microEditLoading' = FALSE
                /\ UNCHANGED analysisResult
        /\ UNCHANGED <<docVars, selVars, mode, previewingIssue, ghostVars, pureVars>>

\* handleSuggestCitations up to its await (the Cite Sources button of the
\* tooltip, disabled while microEditLoading).
HandleSuggestCitations ==
    /\ showMicroEditTooltip
    /\ ~microEditLoading
    /\ selection # <<>>
    /\ Len(calls) < MaxCalls
    /\ microEditLoading' = TRUE
    /\ calls' = Append(calls, [kind |-> "suggestCitations", closure |-> UpdateClosure])
    /\ UNCHANGED <<docVars, selVars, reviewVars, ghostVars, pureVars>>

\* suggestCitations resolves: the marker is spliced in, every reference is
\* added, the discovery list is shown and the selection is cleared.
suggestCitationsResolves(k, reply) ==
    /\ calls[k].kind = "suggestCitations"
    /\ sections' =
         addReferences(
             updatedSections(calls[k].closure, sections,
                 calls[k].closure.selection[1].text \o <<" ">>
                     \o reply.citationMarker, now),
             reply.references)
    /\ analysisResult' = <<[issues |-> <<>>,
                            discovery |-> reply.relatedPapers,
                            loading |-> FALSE]>>
    /\ mode' = "DISCOVERY"
    /\ selection' = <<>>
    /\ showMicroEditTooltip' = FALSE
    /\ microEditLoading' = FALSE
    /\ calls' = RemoveAt(calls, k)
    /\ Ran(branchOf(calls[k].closure))
    /\ UNCHANGED <<activeSectionId, isFullDocMode, now, previewingIssue,
                   pureVars>>

SuggestCitationsResolves ==
    \E k \in 1..Len(calls) : \E reply \in CitationReplies :
        suggestCitationsResolves(k, reply)

\* handleHumanize up to its await (the Rewrite to Humanize button, shown
\* with the detection score and disabled while microEditLoading).
HandleHumanize ==
    /\ PanelShown
    /\ mode = "DE_AI"
    /\ analysisResult # <<>>
    /\ ~microEditLoading
    /\ Len(calls) < MaxCalls
    /\ microEditLoading' = TRUE
    /\ calls' = Append(calls, [kind |-> "humanize", closure |-> HumanizeClosure])
    /\ UNCHANGED <<docVars, selVars, reviewVars, ghostVars, pureVars>>

\* humanizeText resolves: the section whose id the closure holds as
\* activeSectionId gets the new text.
HumanizeResolves ==
    \E k \in 1..Len(calls) : \E newText \in HumanizeTexts :
        /\ calls[k].kind = "humanize"
        /\ sections' = withContent(sections, calls[k].closure.activeSectionId,
                                   newText)
        /\ microEditLoading' = FALSE
        /\ calls' = RemoveAt(calls, k)
        /\ Ran("handleHumanize")
        /\ UNCHANGED <<activeSectionId, isFullDocMode, now, selVars,
                       reviewVars, pureVars>>

\* runAnalysis up to its await (the Run Analysis button, hidden in
\* discovery mode and disabled while the result is loading).
RunAnalysis ==
    /\ PanelShown
    /\ mode # "DISCOVERY"
    /\ ~(analysisResult # <<>> /\ analysisResult[1].loading)
    /\ Len(calls) < MaxCalls
    /\ analysisResult' = <<[issues |-> <<>>, discovery |-> <<>>,
                            loading |-> TRUE]>>
    /\ calls' = Append(calls, [kind |-> "analysis", closure |-> AnalysisClosure])
    /\ UNCHANGED <<docVars, selVars, mode, previewingIssue, microEditLoading,
                   ghostVars, pureVars>>

\* The analysis call resolves with the issues the model layer returns.
AnalysisResolves ==
    \E k \in 1..Len(calls) : \E issues \in AnalysisReplies :
        /\ calls[k].kind = "analysis"
        /\ analysisResult' = <<[issues |-> issues, discovery |-> <<>>,
                                loading |-> FALSE]>>
        /\ calls' = RemoveAt(calls, k)
        /\ UNCHANGED <<docVars, selVars, mode, previewingIssue,
                       microEditLoading, ghostVars, pureVars>>

\* handlePreviewFix without its guard: every issue is previewed.
handlePreviewFixUnguarded(issue) ==
    /\ previewingIssue' = <<issue>>
    /\ UNCHANGED <<docVars, selVars, mode, analysisResult, asyncVars, ghostVars,
                   pureVars>>

\* handlePreviewFix, from the Review Fix button of an issue.
handlePreviewFix(issue) ==
    /\ IF issue.snippet = <<>> \/ indexOf(fullText(sections), issue.snippet) = -1
       THEN UNCHANGED previewingIssue
       ELSE previewingIssue' = <<issue>>
    /\ UNCHANGED <<docVars, selVars, mode, analysisResult, asyncVars, ghostVars,
                   pureVars>>

HandlePreviewFix ==
    \E issue \in ShownIssues : ~IsPreviewing(issue) /\ handlePreviewFix(issue)

\* The Cancel button of the issue rendered as previewing.
CancelPreview ==
    /\ \E issue \in ShownIssues : IsPreviewing(issue)
    /\ previewingIssue' = <<>>
    /\ UNCHANGED <<docVars, selVars, mode, analysisResult, asyncVars, ghostVars,
                   pureVars>>

\* handleConfirmFix, from the Apply button of an issue rendered as
\* previewing.
handleConfirmFix(issue) ==
    /\ issue.snippet # <<>>
    /\ issue.replacement # <<>>
    /\ sections' = fixedSections(sections, issue)
    /\ previewingIssue' = <<>>
    /\ IF analysisResult # <<>>
       THEN analysisResult' =
                <<[analysisResult[1] EXCEPT !.issues = withoutId(@, issue.id)]>>
       ELSE UNCHANGED analysisResult
    /\ Ran("handleConfirmFix")
    /\ UNCHANGED <<activeSectionId, isFullDocMode, now, selVars, mode,
                   asyncVars, pureVars>>

\* handleConfirmFix returns at once for an issue without snippet or
\* without replacement.
confirmFixRefused(issue) ==
    /\ issue.snippet = <<>> \/ issue.replacement = <<>>
    /\ last' = [op |-> "handleConfirmFix refused", changed |-> FALSE]
    /\ UNCHANGED <<docVars, selVars, reviewVars, asyncVars, edits, pureVars>>

HandleConfirmFix ==
    \E issue \in ShownIssues :
        /\ IsPreviewing(issue)
        /\ handleConfirmFix(issue) \/ confirmFixRefused(issue)

---------------------------------------------------------------------------
(* The specifications *)

\* App from its construction.
Init == InitApp /\ PureIdle

Next ==
    \/ Tick
    \/ OnChange
    \/ HandleSelect
    \/ ToggleFullDoc
    \/ SetMode
    \/ SelectSection
    \/ HandleImport
    \/ ResetDocument
    \/ HandleCiteAtSelection
    \/ HandleAddReference
    \/ HandleMicroEdit
    \/ MicroEditResolves
    \/ HandleSuggestCitations
    \/ SuggestCitationsResolves
    \/ HandleHumanize
    \/ HumanizeResolves
    \/ RunAnalysis
    \/ AnalysisResolves
    \/ CallFails
    \/ HandlePreviewFix
    \/ CancelPreview
    \/ HandleConfirmFix

Spec == Init /\ [][Next]_vars

\* Two parts of Next, each a scenario small enough to explore in full.
\* The review of an analysis: the user types, switches view and mode, runs
\* an analysis and previews, cancels and applies the fixes of its issues.
NextFix ==
    \/ OnChange
    \/ ToggleFullDoc
    \/ SetMode
    \/ RunAnalysis
    \/ AnalysisResolves
    \/ CallFails
    \/ HandlePreviewFix
    \/ CancelPreview
    \/ HandleConfirmFix

SpecFix == Init /\ [][NextFix]_vars

\* The micro-edit of a selection: the user types, selects, switches view
\* and asks for a rewrite, which the model layer answers or fails.
NextEdit ==
    \/ OnChange
    \/ HandleSelect
    \/ ToggleFullDoc
    \/ HandleMicroEdit
    \/ MicroEditResolves
    \/ CallFails

SpecEdit == Init /\ [][NextEdit]_vars

\* The life of the document: time passes, the user imports a text, resets
\* the document, selects, switches view and asks for citations, whose
\* answer is spliced in (in full view by re-sectioning the full-document
\* view) and whose references are added.
NextDoc ==
    \/ Tick
    \/ HandleImport
    \/ ResetDocument
    \/ HandleSelect
    \/ ToggleFullDoc
    \/ HandleSuggestCitations
    \/ SuggestCitationsResolves
    \/ CallFails

SpecDoc == Init /\ [][NextDoc]_vars

\* The uses of a selection in single view: a rewrite, a citation search,
\* and the discovery list's Cite at Selection and Add to Refs.
NextCite ==
    \/ HandleSelect
    \/ HandleMicroEdit
    \/ MicroEditResolves
    \/ HandleSuggestCitations
    \/ SuggestCitationsResolves
    \/ HandleCiteAtSelection
    \/ HandleAddReference
    \/ CallFails

SpecCite == Init /\ [][NextCite]_vars

\* The list of references: the user imports a text, selects, asks for
\* citations, whose references are added, and adds references from the
\* discovery list.
NextRefs ==
    \/ HandleImport
    \/ HandleSelect
    \/ HandleSuggestCitations
    \/ SuggestCitationsResolves
    \/ HandleAddReference
    \/ CallFails

SpecRefs == Init /\ [][NextRefs]_vars

\* The model calls that edit the document: the user selects, chooses a
\* mode, runs an analysis, and asks for a rewrite, for citations and for
\* a humanized section; each call is answered or fails.
NextAsync ==
    \/ HandleSelect
    \/ SetMode
    \/ RunAnalysis
    \/ AnalysisResolves
    \/ HandleMicroEdit
    \/ MicroEditResolves
    \/ HandleSuggestCitations
    \/ SuggestCitationsResolves
    \/ HandleHumanize
    \/ HumanizeResolves
    \/ CallFails

SpecAsync == Init /\ [][NextAsync]_vars

InitSect ==
    /\ InitApp
    /\ arg \in Texts \cup {ExampleText}
    /\ res = <<>>
    /\ res2 = <<>>
    /\ stage = "input"

Sectionize ==
    /\ stage = "input"
    /\ res' = modularizeText(arg, 0)
    /\ stage' = "sectioned"
    /\ UNCHANGED <<arg, res2, appVars>>

Resectionize ==
    /\ stage = "sectioned"
    /\ res2' = modularizeText(fullText(res), 0)
    /\ stage' = "resectioned"
    /\ UNCHANGED <<arg, res, appVars>>

NextSect == Sectionize \/ Resectionize

SpecSect == InitSect /\ [][NextSect]_vars

\* The section-targeted splice of updateDocumentAtSelection as a function
\* of the target's content, the offsets of the selection and the new
\* segment. The target is the second section of the seed document, either
\* by the selection's sectionId (full view) or as the active section
\* (single view).
SpliceChars == {"a", "b"}
Bodies == UNION {[1..n -> SpliceChars] : n \in 0..MaxBodyLen}
NewSegments == { <<>>, <<"x">>, <<"x", "y">> }
SpliceTarget == <<"intro">>

InitSplice ==
    /\ InitApp
    /\ arg \in [body : Bodies, start : 0..MaxBodyLen, end : 0..MaxBodyLen,
                 newSegment : NewSegments, sectionId : {NoId, SpliceTarget}]
    /\ res = <<>>
    /\ res2 = <<>>
    /\ stage = "input"

spliceClosure(a) ==
    [NoClosure EXCEPT
        !.selection = <<[text |-> substring(a.body, a.start, a.end),
                         start |-> a.start, end |-> a.end,
                         sectionId |-> a.sectionId]>>,
        !.isFullDocMode = (a.sectionId # NoId),
        !.activeSectionId = IF a.sectionId = NoId THEN SpliceTarget
                            ELSE <<"abstract">>]

Splice ==
    /\ stage = "input"
    /\ res' = updatedSections(spliceClosure(arg),
                              withContent(INITIAL_SECTIONS, SpliceTarget, arg.body),
                              arg.newSegment, 0)
    /\ stage' = "spliced"
    /\ UNCHANGED <<arg, res2, appVars>>

NextSplice == Splice

SpecSplice == InitSplice /\ [][NextSplice]_vars

---------------------------------------------------------------------------
(* Properties of the Sectionizer, checked under SpecSect *)

\* The lines of a text, as modularizeText splits it, and whether it has a
\* heading line of either pattern.
NoHeadingLine(text) ==
    \A k \in DOMAIN splitLines(text) : headerMatch(splitLines(text)[k]) = <<>>

\* No line is a heading by the uppercase pattern alone.
OnlyHashHeadings(text) ==
    \A k \in DOMAIN splitLines(text) :
        hashHeading(splitLines(text)[k]) = <<>>
            => upperHeading(splitLines(text)[k]) = <<>>

\* Titles and contents of a section list, position by position.
TitlesAndContents(secs) ==
    [i \in 1..Len(secs) |-> <<secs[i].title, secs[i].content>>]

\* A text with every CRLF pair replaced by a single LF.
RECURSIVE crlfToLf(_)
crlfToLf(s) ==
    IF s = <<>> THEN <<>>
    ELSE IF Len(s) >= 2 /\ s[1] = "\r" /\ s[2] = "\n"
    THEN <<"\n">> \o crlfToLf(SubSeq(s, 3, Len(s)))
    ELSE <<s[1]>> \o crlfToLf(Tail(s))

\* C1 (as claimed): for an input that is empty or only white space,
\* modularizeText returns the seed set INITIAL_SECTIONS.
C1_WhitespaceGivesSeed ==
    (stage = "sectioned" /\ trim(arg) = <<>>) => res = INITIAL_SECTIONS

\* C5 (as claimed): for an input with no heading line, modularizeText
\* returns exactly one section, titled "Front Matter" or "Introduction",
\* whose content is the trimmed input.
C5_NoHeadingTrimmedInput ==
    (stage = "sectioned" /\ NoHeadingLine(arg)) =>
        /\ Len(res) = 1
        /\ res[1].title \in {FrontMatter, Introduction}
        /\ res[1].content = trim(arg)

\* C5 (amended): for an input with no heading line, modularizeText returns
\* exactly one section, titled "Front Matter" or "Introduction", whose
\* content is the input with every CRLF line break replaced by LF and then
\* trimmed.
C5_NoHeadingNormalizedInput ==
    (stage = "sectioned" /\ NoHeadingLine(arg)) =>
        /\ Len(res) = 1
        /\ res[1].title \in {FrontMatter, Introduction}
        /\ res[1].content = trim(crlfToLf(arg))

\* Witness of C5: a sectioned input without heading line that holds a CRLF
\* line break between two words and white space to trim.
C5_Witness ==
    /\ stage = "sectioned"
    /\ NoHeadingLine(arg)
    /\ trim(arg) # arg
    /\ includes(trim(arg), <<"\r", "\n">>)
    /\ res[1].content # arg

\* C6 (as claimed): for a text whose only heading lines are '#'-style,
\* sectioning the full-document view of its sections gives the same number
\* of sections with the same titles and contents.
C6_RoundTrip ==
    (stage = "resectioned" /\ OnlyHashHeadings(arg)) =>
        TitlesAndContents(res2) = TitlesAndContents(res)

---------------------------------------------------------------------------
(* Properties of the offset splice, checked under SpecSplice *)

\* C7: for a splice with 0 <= start <= end <= length(body), the target
\* section's new content is body[0:start] + newSegment + body[end:]; with
\* start = end it is body with newSegment inserted at start and nothing
\* deleted.
C7_SpliceAtOffsets ==
    (/\ stage = "spliced"
     /\ 0 <= arg.start /\ arg.start <= arg.end /\ arg.end <= Len(arg.body)) =>
        LET new == findSection(res, SpliceTarget)[1].content
        IN  /\ new = SubSeq(arg.body, 1, arg.start) \o arg.newSegment
                        \o SubSeq(arg.body, arg.end + 1, Len(arg.body))
            /\ arg.start = arg.end =>
                /\ Len(new) = Len(arg.body) + Len(arg.newSegment)
                /\ SubSeq(new, 1, arg.start) = SubSeq(arg.body, 1, arg.start)
                /\ SubSeq(new, arg.start + Len(arg.newSegment) + 1, Len(new))
                       = SubSeq(arg.body, arg.start + 1, Len(arg.body))

\* Witness of C7: a segment has been inserted strictly inside the body,
\* start = end, and the content has grown by the segment's length.
C7_Witness ==
    /\ stage = "spliced"
    /\ 0 < arg.start /\ arg.start = arg.end /\ arg.end < Len(arg.body)
    /\ arg.newSegment # <<>>
    /\ Len(findSection(res, SpliceTarget)[1].content)
           = Len(arg.body) + Len(arg.newSegment)

---------------------------------------------------------------------------
(* Properties of the issue fixes, checked under SpecFix *)

\* The Apply button of issue is clicked.
Confirms(issue) ==
    /\ IsPreviewing(issue)
    /\ handleConfirmFix(issue) \/ confirmFixRefused(issue)

\* The sections whose content holds the snippet, in document order.
Holders(secs, snippet) ==
    {i \in 1..Len(secs) : includes(secs[i].content, snippet)}

\* body with its first occurrence of snippet replaced by the replacement,
\* character for character.
literalFix(body, snippet, replacement) ==
    SubSeq(body, 1, indexOf(body, snippet)) \o replacement
        \o SubSeq(body, indexOf(body, snippet) + Len(snippet) + 1, Len(body))

\* C2 (as claimed): when a fix is confirmed and some section holds the
\* snippet, the first content that holds it becomes that content with the
\* occurrence at the lowest offset replaced by the literal replacement
\* (the empty string and strings with a dollar sign included), every other
\* character unchanged.
C2_LiteralFirstOccurrence ==
    [][\A issue \in ShownIssues :
         (/\ Confirms(issue)
          /\ issue.snippet # <<>>
          /\ Holders(sections, issue.snippet) # {}) =>
            LET i == Min(Holders(sections, issue.snippet))
            IN  sections'[i].content =
                    literalFix(sections[i].content, issue.snippet,
                               issue.replacement)]_vars

\* C3 (as claimed): when a fix is confirmed, only the first section in
\* document order whose content holds the snippet changes; every other
\* section, the later holders of the snippet included, is unchanged.
C3_FirstSectionOnly ==
    [][\A issue \in ShownIssues :
         (/\ Confirms(issue)
          /\ issue.snippet # <<>>
          /\ Holders(sections, issue.snippet) # {}) =>
            /\ Len(sections') = Len(sections)
            /\ \A i \in 1..Len(sections) :
                i # Min(Holders(sections, issue.snippet))
                    => sections'[i] = sections[i]]_vars

\* C4 (as claimed): when a fix is confirmed and no section's content holds
\* the snippet, or the snippet is empty, nothing happens: the sections are
\* unchanged and the issue stays in analysisResult.issues.
C4_AbsentSnippetIsNoOp ==
    [][\A issue \in ShownIssues :
         (/\ Confirms(issue)
          /\ issue.snippet = <<>> \/ Holders(sections, issue.snippet) = {}) =>
            /\ sections' = sections
            /\ analysisResult' = analysisResult]_vars

---------------------------------------------------------------------------
(* Properties of updateDocumentAtSelection, checked under SpecEdit *)

\* C8: when updateDocumentAtSelection targets one section (the selection
\* carries a sectionId, or the editor was not in full view), the number and
\* order of the sections, every id and every title are unchanged, and only
\* the target's content may change.
C8_OnlyTargetContentChanges ==
    [][\A k \in 1..Len(calls) : \A newText \in MicroEditTexts :
         (~reflows(calls[k].closure) /\ microEditResolves(k, newText)) =>
            /\ Len(sections') = Len(sections)
            /\ \A i \in 1..Len(sections) :
                /\ sections'[i].id = sections[i].id
                /\ sections'[i].title = sections[i].title
                /\ sections[i].id # targetIdOf(calls[k].closure)
                       => sections'[i] = sections[i]]_vars

\* Witness of C8: in full view, with the first section active, a rewrite
\* of a selection of the second section has been spliced into it.
C8_Witness ==
    /\ last = [op |-> "splice", changed |-> TRUE]
    /\ isFullDocMode
    /\ activeSectionId = <<"abstract">>
    /\ sections = withContent(INITIAL_SECTIONS, <<"intro">>,
                              <<"w", "a", "s", " ", "i", "s">>)

\* C9 (as claimed): when updateDocumentAtSelection runs in full view with
\* a selection without sectionId, the new sections are modularizeText of
\* the full-document view of the sections as they are at the moment of the
\* splice, with the new segment in place of the selected range.
C9_ReflowsCurrentView ==
    [][\A k \in 1..Len(calls) : \A newText \in MicroEditTexts :
         (reflows(calls[k].closure) /\ microEditResolves(k, newText)) =>
            sections' = modularizeText(
                            spliceAt(fullText(sections),
                                     calls[k].closure.selection[1], newText),
                            now)]_vars

\* What the closure read of the document still holds: the full-document
\* view it captured is the current one, or the selected range of the
\* target section still holds the selected text.
snapshotIsCurrent(c) ==
    IF reflows(c) THEN c.fullText = fullText(sections)
    ELSE /\ findSection(sections, targetIdOf(c)) # <<>>
         /\ substring(findSection(sections, targetIdOf(c))[1].content,
                      c.selection[1].start, c.selection[1].end)
                = c.selection[1].text

\* C10 (as claimed): when a model call resolves, its write is computed
\* from the document as it is at that moment: nothing the closure read of
\* the document has been changed since by another operation.
C10_WritesFromCurrentDocument ==
    [][\A k \in 1..Len(calls) : \A newText \in MicroEditTexts :
         microEditResolves(k, newText) => snapshotIsCurrent(calls[k].closure)]_vars

---------------------------------------------------------------------------
(* Properties of the heading patterns, checked under SpecSect *)

\* A text of one line: no line feed.
OneLine(text) == \A i \in 1..Len(text) : text[i] # "\n"

\* modularizeText took the one line of its input for a heading: the only
\* section has the captured title and no content. (A line that is no
\* heading gives the title Introduction.)
TakenAsHeading ==
    /\ Len(res) = 1
    /\ res[1].title # Introduction
    /\ res[1].content = <<>>

\* The number of '#' characters a sequence starts with.
LeadingHashes(s) == RunOfHash(s, 0)

\* C18 (as claimed): a line is taken as an uppercase-style heading exactly
\* when it is no '#'-style heading and, trimmed, has at least 4
\* characters, each an uppercase letter A-Z or a space.
C18_UpperHeadingIffTrimmedLine ==
    (stage = "sectioned" /\ OneLine(arg) /\ hashHeading(arg) = <<>>) =>
        (TakenAsHeading <=>
            /\ Len(trim(arg)) >= 4
            /\ \A i \in 1..Len(trim(arg)) :
                    IsUpper(trim(arg)[i]) \/ trim(arg)[i] = " ")

\* C19 (as claimed): a line is taken as a '#'-style heading exactly when
\* it is one or more '#' characters followed by text that is not empty
\* after trimming; the title is that text, so it is not empty after
\* trimming.
C19_HashHeadingIffTextFollows ==
    (stage = "sectioned" /\ OneLine(arg) /\ upperHeading(arg) = <<>>) =>
        LET line == trim(arg)
            text == SubSeq(line, LeadingHashes(line) + 1, Len(line))
        IN  /\ TakenAsHeading <=> (LeadingHashes(line) >= 1 /\ trim(text) # <<>>)
            /\ TakenAsHeading =>
                    (trim(res[1].title) # <<>> /\ trim(res[1].title) = trim(text))

\* The heading lines of a list of lines, the k-th of them, and the trimmed
\* join of the lines from a to b.
HeadingLines(lines) == {k \in 1..Len(lines) : headerMatch(lines[k]) # <<>>}
NthHeading(lines, i) ==
    CHOOSE k \in HeadingLines(lines) :
        Cardinality({j \in HeadingLines(lines) : j < k}) = i - 1
BodyOf(lines, a, b) == trim(join(SubSeq(lines, a, b), LF))
NextHeadingOrEnd(lines, k) ==
    Min({j \in HeadingLines(lines) : j > k} \cup {Len(lines) + 1})

\* The titles and contents the lines of a text stand for: the lines before
\* the first heading, if any, as one section; then one section per heading
\* line, in order, holding the lines up to the next heading.
SectionsByHeading(text) ==
    LET lines == splitLines(text)
        H == HeadingLines(lines)
        first == NextHeadingOrEnd(lines, 0)
        front == IF first > 1
                 THEN << <<IF H = {} THEN Introduction ELSE FrontMatter,
                           BodyOf(lines, 1, first - 1)>> >>
                 ELSE <<>>
    IN  front \o
        [i \in 1..Cardinality(H) |->
            <<headerMatch(lines[NthHeading(lines, i)]),
              BodyOf(lines, NthHeading(lines, i) + 1,
                     NextHeadingOrEnd(lines, NthHeading(lines, i)) - 1)>>]

\* C20: modularizeText emits its sections in the order of the heading
\* lines; the section of the i-th heading line has the captured text as
\* title and as content the lines up to the next heading (or the end),
\* joined with a line feed and trimmed; the lines before the first heading
\* form the first section, so no line is dropped or moved.
C20_SectionsFollowHeadings ==
    stage = "sectioned" => TitlesAndContents(res) = SectionsByHeading(arg)

\* Witness of C20: the example text gives the sections Abstract with
\* "Hello world." and Methods with "We did X.".
C20_Witness ==
    /\ stage = "sectioned"
    /\ arg = ExampleText
    /\ TitlesAndContents(res) =
           << <<<<"A", "b", "s", "t", "r", "a", "c", "t">>,
                <<"H", "e", "l", "l", "o", " ", "w", "o", "r", "l", "d", ".">>>>,
              <<<<"M", "e", "t", "h", "o", "d", "s">>,
                <<"W", "e", " ", "d", "i", "d", " ", "X", ".">>>> >>

---------------------------------------------------------------------------
(* Properties of the selection, checked under SpecEdit *)

\* The number of characters of a text that are not white space.
Visible(text) == Cardinality({i \in 1..Len(text) : ~IsSpace(text[i])})

\* C17: handleSelect stores the marked range as the selection exactly when
\* the range is not empty and the marked text holds at least two
\* characters that are not white space; otherwise the stored selection
\* stays as it was.
C17_SelectionIffTwoVisible ==
    [][\A sectionId \in (IF isFullDocMode THEN Ids(sections) ELSE {NoId}) :
       \A range \in SelectionRanges :
         (/\ UNCHANGED <<docVars, asyncVars>>
          /\ range[2] <= Len(textareaValue(sectionId))
          /\ handleSelect(range[1], range[2], sectionId)) =>
            LET marked == SubSeq(textareaValue(sectionId), range[1] + 1, range[2])
            IN  IF range[1] # range[2] /\ Visible(marked) >= 2
                THEN selection' = <<[text |-> marked, start |-> range[1],
                                     end |-> range[2], sectionId |-> sectionId]>>
                ELSE selection' = selection]_vars

\* Witness of C17: in full view the second "is" of the second section has
\* been marked and is the selection, and the tooltip shows.
C17_Witness ==
    /\ isFullDocMode
    /\ showMicroEditTooltip
    /\ selection = <<[text |-> <<"i", "s">>, start |-> 3, end |-> 5,
                      sectionId |-> <<"intro">>]>>
    /\ findSection(sections, <<"intro">>)[1].content
           = <<"i", "s", " ", "i", "s">>

---------------------------------------------------------------------------
(* Properties of the preview, checked under SpecFix *)

\* The entries of the issues list that the panel renders as previewing.
RenderedAsPreviewing ==
    IF IssuesShown
    THEN {i \in 1..Len(analysisResult[1].issues) :
            IsPreviewing(analysisResult[1].issues[i])}
    ELSE {}

\* C14 (as claimed): at most one displayed issue is rendered as
\* previewing, whatever ids the model layer returned.
C14_AtMostOnePreviewing == Cardinality(RenderedAsPreviewing) <= 1

\* renderHighlights: the text behind the editor, in which the first
\* occurrence of the previewed snippet is marked.
highlightedText ==
    IF isFullDocMode THEN fullText(sections)
    ELSE activeSection(sections, activeSectionId).content

\* C15 (as claimed): when a previewed issue whose snippet is marked in the
\* editor is applied to a document that was not modified since the
\* preview (here: never modified), the marked occurrence is the one
\* replaced and no other text changes: in full view the full-document
\* view, in single view the active section and no other section.
C15_AppliesHighlightedOccurrence ==
    [][\A issue \in ShownIssues :
         (/\ edits = 0
          /\ previewingIssue = <<issue>>
          /\ includes(highlightedText, issue.snippet)
          /\ handleConfirmFix(issue)) =>
            IF isFullDocMode
            THEN fullText(sections') =
                    replaceFirst(fullText(sections), issue.snippet,
                                 issue.replacement)
            ELSE sections' =
                    withContent(sections,
                        activeSection(sections, activeSectionId).id,
                        replaceFirst(highlightedText, issue.snippet,
                                     issue.replacement))]_vars

---------------------------------------------------------------------------
(* Properties of the section list, checked under SpecDoc *)

\* C11: the document always holds at least one section.
C11_AtLeastOneSection == Len(sections) >= 1

\* Witness of C11: a text without heading has been imported and is the
\* only section.
C11_Witness ==
    /\ last = [op |-> "handleImport", changed |-> TRUE]
    /\ Len(sections) = 1
    /\ sections[1].content = <<"i", "s">>

\* C12: no two sections of the document share an id, and the ids that
\* modularizeText made carry the ordinals 0, 1, 2, ... in document order.
C12_UniqueIds ==
    /\ \A i, j \in 1..Len(sections) :
            sections[i].id = sections[j].id => i = j
    /\ \A i \in 1..Len(sections) :
            sections[i].id[1] = "sec" => sections[i].id[2] = i - 1

\* Witness of C12: an imported document of two sections to which a
\* reference has added the section refs-auto.
C12_Witness ==
    /\ Len(sections) = 3
    /\ sections[1].id[1] = "sec"
    /\ sections[2].id[1] = "sec"
    /\ sections[3].id = <<"refs-auto">>

\* C13 (as claimed): once a section id has left the document, no later
\* document holds it. Every seed id is in the first document, so a seed id
\* that the document lacks has been deleted, and no step may bring it back.
C13_NoIdReuse ==
    [][\A id \in Ids(INITIAL_SECTIONS) :
          id \notin Ids(sections) => id \notin Ids(sections')]_vars

---------------------------------------------------------------------------
(* Properties of the selection's use, checked under SpecCite *)

\* C16: when a micro-edit or a citation search completes, the selection
\* is null and the tooltip hidden; Cite at Selection leaves the selection
\* as it is; and without a selection no handler splices the document
\* (only Add to Refs changes it).
C16_SelectionConsumedOnce ==
    [][/\ \A k \in 1..Len(calls) :
            (\/ \E newText \in MicroEditTexts : microEditResolves(k, newText)
             \/ \E reply \in CitationReplies : suggestCitationsResolves(k, reply))
                => (selection' = <<>> /\ ~showMicroEditTooltip')
       /\ HandleCiteAtSelection => (selection' = selection /\ selection # <<>>)
       /\ (selection = <<>> /\ sections' # sections) => HandleAddReference]_vars

\* Witness of C16: a citation search has completed: its marker is in the
\* first section, the discovery list shows, and the selection is null.
C16_Witness ==
    /\ last = [op |-> "splice", changed |-> TRUE]
    /\ mode = "DISCOVERY"
    /\ sections[1].content = <<"A", "I", " ", "[", "1", "]", " ", "i", "s">>
    /\ selection = <<>>
    /\ ~showMicroEditTooltip

---------------------------------------------------------------------------
(* Properties of the number and the default titles of the sections,
   checked under SpecSect *)

\* The position, among the sections, of the section that heading line k
\* opens: the heading lines up to k, after the front section if the first
\* line is no heading.
SectionOfHeading(lines, k) ==
    Cardinality({j \in HeadingLines(lines) : j <= k})
        + (IF 1 \in HeadingLines(lines) THEN 0 ELSE 1)

\* C21: modularizeText emits one section per heading line, and one more
\* when the first line of the input is no heading line; a heading line
\* right before another heading line gives a section with its title and
\* empty content.
C21_SectionCount ==
    stage = "sectioned" =>
        LET lines == splitLines(arg)
            H == HeadingLines(lines)
        IN  /\ Len(res) = Cardinality(H) + (IF 1 \in H THEN 0 ELSE 1)
            /\ \A k \in H :
                    (k + 1) \in H =>
                        /\ SectionOfHeading(lines, k) <= Len(res)
                        /\ res[SectionOfHeading(lines, k)].title
                                = headerMatch(lines[k])
                        /\ res[SectionOfHeading(lines, k)].content = <<>>

\* Witness of C21: two heading lines in a row: two sections, the first
\* with the first heading's title and no content.
C21_Witness ==
    /\ stage = "sectioned"
    /\ arg = <<"#", "a", "\n", "#", "A">>
    /\ Len(res) = 2
    /\ res[1] = [id |-> <<"sec", 0, 0>>, title |-> <<"a">>, content |-> <<>>]
    /\ res[2].title = <<"A">>

\* C22 (as claimed): the title Front Matter goes to the first section
\* only, and only for the lines before the first heading line of an input
\* that has one; the title Introduction goes only to an input without
\* heading line whose content is not empty.
C22_DefaultTitles ==
    stage = "sectioned" =>
        LET H == HeadingLines(splitLines(arg))
        IN  \A i \in 1..Len(res) :
                /\ res[i].title = FrontMatter =>
                        (i = 1 /\ H # {} /\ 1 \notin H)
                /\ res[i].title = Introduction =>
                        (H = {} /\ res[i].content # <<>>)

---------------------------------------------------------------------------
(* Properties of the preview of a fix, checked under SpecFix *)

\* C23: a step that makes an issue the previewing issue finds its snippet,
\* which is not empty, in the current full-document view; a Review Fix
\* click on an issue whose snippet is empty or not in that view leaves
\* the previewing issue and the sections as they are.
C23_PreviewNeedsSnippetInDocument ==
    [][/\ (previewingIssue' # <<>> /\ previewingIssue' # previewingIssue) =>
            /\ previewingIssue'[1].snippet # <<>>
            /\ includes(fullText(sections), previewingIssue'[1].snippet)
            /\ sections' = sections
       /\ \A issue \in ShownIssues :
            (/\ handlePreviewFix(issue)
             /\ \/ issue.snippet = <<>>
                \/ ~includes(fullText(sections), issue.snippet)) =>
                UNCHANGED <<previewingIssue, sections>>]_vars

\* Witness of C23: an issue whose snippet is in the document is
\* previewing, while the list also shows an issue without snippet and
\* one whose snippet the user has typed away.
C23_Witness ==
    /\ previewingIssue = <<IssueTitle>>
    /\ includes(fullText(sections), IssueTitle.snippet)
    /\ IssueNoSnippet \in ShownIssues
    /\ IssueDelete \in ShownIssues
    /\ ~includes(fullText(sections), IssueDelete.snippet)

---------------------------------------------------------------------------
(* Properties of the active section *)

\* C24 (as claimed): activeSectionId is the id of a section of the
\* document.
C24_ActiveSectionExists == activeSectionId \in Ids(sections)

\* C25 (as claimed): in single view, the text of a change event of the
\* editor is afterwards the content of the section the editor displays.
C25_TypedTextIsKept ==
    [][\A value \in TypedTexts :
          (~isFullDocMode /\ typeInto(activeSectionId, value)) =>
              activeSection(sections', activeSectionId').content = value]_vars

---------------------------------------------------------------------------
(* Properties of a live selection, checked under SpecEdit *)

\* The text updateDocumentAtSelection would splice if it ran now: the
\* content of the section the selection names, else the full-document
\* view in full view, else the content of the section whose id is
\* activeSectionId (no text when no section has the id).
bodyToSplice ==
    LET c == UpdateClosure
    IN  IF reflows(c) THEN fullText(sections)
        ELSE IF findSection(sections, targetIdOf(c)) # <<>>
        THEN findSection(sections, targetIdOf(c))[1].content
        ELSE <<>>

\* C26 (as claimed): while a selection is held, the characters from its
\* start to its end in the text updateDocumentAtSelection would splice
\* are the selection's text.
C26_SelectionOffsetsValid ==
    selection # <<>> =>
        substring(bodyToSplice, selection[1].start, selection[1].end)
            = selection[1].text

---------------------------------------------------------------------------
(* Properties of the pending issues, checked under SpecFix *)

\* A list of issues without its first entry equal to the issue.
RECURSIVE withoutIssue(_, _)
withoutIssue(issues, issue) ==
    IF issues = <<>> THEN <<>>
    ELSE IF Head(issues) = issue THEN Tail(issues)
    ELSE <<Head(issues)>> \o withoutIssue(Tail(issues), issue)

\* C27 (as claimed): confirming the fix of an issue takes that one issue
\* from the list of pending issues; every other issue stays, in its place.
C27_ConfirmRemovesOneIssue ==
    [][\A issue \in ShownIssues :
          (IsPreviewing(issue) /\ handleConfirmFix(issue)) =>
              analysisResult'[1].issues
                  = withoutIssue(analysisResult[1].issues, issue)]_vars

---------------------------------------------------------------------------
(* Properties of the analysis in flight, checked under SpecFix *)

\* C28 (as claimed): when an analysis call ends in a mode other than the
\* one it was started in, analysisResult stays as the mode switch left
\* it.
C28_NoLateAnalysisResult ==
    [][\A k \in 1..Len(calls) :
          (/\ calls' = RemoveAt(calls, k)
           /\ calls[k].kind = "analysis"
           /\ calls[k].closure.mode # mode) =>
              analysisResult' = analysisResult]_vars

---------------------------------------------------------------------------
(* Properties of the list of references, checked under SpecRefs *)

\* Whether a title contains 'reference', whatever the case of its letters.
IsReferencesTitle(title) ==
    \E k \in 0..Len(title) :
        OccursAt(toLowerCase(title),
                 <<"r", "e", "f", "e", "r", "e", "n", "c", "e">>, k)

\* next is prev with the lines added to the first section whose title
\* contains 'reference', or, if there is none, to a new last section
\* References with the id refs-auto: the section's content is its old
\* content trimmed, a line feed if that is not empty, and the lines; no
\* other section differs.
LinesAdded(prev, next, lines) ==
    LET hits == {i \in 1..Len(prev) : IsReferencesTitle(prev[i].title)}
        idx == IF hits = {} THEN Len(prev) + 1 ELSE Min(hits)
        was == IF hits = {}
               THEN [id |-> <<"refs-auto">>, title |-> References,
                     content |-> <<>>]
               ELSE prev[idx]
    IN  /\ Len(next) = Max({Len(prev), idx})
        /\ \A i \in 1..Len(prev) : i # idx => next[i] = prev[i]
        /\ next[idx].id = was.id
        /\ next[idx].title = was.title
        /\ next[idx].content =
                trim(was.content)
                    \o (IF trim(was.content) # <<>> THEN LF ELSE <<>>)
                    \o join(lines, LF)

\* C29: a click on Add to Refs adds the paper's reference as LinesAdded
\* says, and the references of a citation reply are added to the spliced
\* document in the order of the reply, one per line.
C29_ReferenceAppended ==
    [][/\ HandleAddReference =>
            \E k \in 1..Len(analysisResult[1].discovery) :
                LinesAdded(sections, sections',
                           <<analysisResult[1].discovery[k].fullReference>>)
       /\ \A k \in 1..Len(calls) : \A reply \in CitationReplies :
            suggestCitationsResolves(k, reply) =>
                LinesAdded(updatedSections(calls[k].closure, sections,
                               calls[k].closure.selection[1].text \o <<" ">>
                                   \o reply.citationMarker, now),
                           sections', reply.references)]_vars

\* Witness of C29: the two references of a citation reply are in the
\* seed's section References, and Add to Refs has put a third line under
\* them.
C29_Witness ==
    /\ last = [op |-> "handleAddReference", changed |-> TRUE]
    /\ sections[4].id = <<"refs">>
    /\ sections[4].content = <<"R", "1", "\n", "R", "2", "\n", "R", "2">>

---------------------------------------------------------------------------
(* Properties of a failing model call, checked under SpecAsync *)

\* The calls whose handlers raise microEditLoading.
EditKinds == {"microEdit", "suggestCitations", "humanize"}
EditCallsInFlight(cs) == {k \in 1..Len(cs) : cs[k].kind \in EditKinds}

\* C30: the step in which the model call of a micro-edit, a citation
\* search or a humanize rewrite fails leaves the sections as they are
\* and microEditLoading false; and microEditLoading is true only while
\* such a call is in flight.
C30_FailedEditCallCleansUp ==
    /\ [](microEditLoading => EditCallsInFlight(calls) # {})
    /\ [][\A k \in EditCallsInFlight(calls) :
             (calls' = RemoveAt(calls, k) /\ edits' = edits) =>
                 (sections' = sections /\ ~microEditLoading')]_vars

\* Witness of C30: a humanize call is in flight with the flag raised,
\* after an edit of the document: the state in which the call fails.
C30_Witness ==
    /\ microEditLoading
    /\ Len(calls) = 1
    /\ calls[1].kind = "humanize"
    /\ sections # INITIAL_SECTIONS
    /\ ENABLED CallFails

====
